---- MODULE Spec2Model ----
(***************************************************************************)
(* Model of the MLSecOps helpers of src/mlsecops_security.py:              *)
(*   scan_for_data_poisoning, evaluate_membership_inference_risk,          *)
(*   run_adversarial_stress_test and assemble_security_report.             *)
(*                                                                         *)
(* Four specifications share the variables below:                          *)
(*   Spec            the life cycle of one assemble_security_report call,  *)
(*                   the report file included;                             *)
(*   ScanSpec        calls of scan_for_data_poisoning;                     *)
(*   MembershipSpec  calls of evaluate_membership_inference_risk;          *)
(*   AdversarialSpec calls of run_adversarial_stress_test on one split     *)
(*                   with explicit and ambient random sources.             *)
(***************************************************************************)
EXTENDS Integers, Sequences, FiniteSets, TLC

VARIABLES
    pc,          \* position of the caller: "idle", a step of a call, "returned", "raised"
    risks,       \* assemble_security_report: the RiskScores passed in
    dirExists,   \* whether output_dir exists
    file,        \* the report path: [exists, content]
    priorFile,   \* the report path as it was when the call began
    data,        \* the string json.dumps produced, still to be written
    result,      \* what the last call returned (or the exception it raised)
    df,          \* scan_for_data_poisoning: the split scanned
    train_df,    \* evaluate_membership_inference_risk: the training split
    held_df,     \* evaluate_membership_inference_risk: the held-out split
    mi_model,    \* evaluate_membership_inference_risk: the trained model
    test_df,     \* run_adversarial_stress_test: the caller's split
    orig_df,     \* the caller's split as it was before the first call
    params,      \* run_adversarial_stress_test: model, baseline, epsilon, trigger
    rng,         \* the np.random.Generator the caller owns (its state)
    globalRng,   \* the state of the process-wide legacy np.random source
    ambientDraws,   \* how many draws other code made from the ambient source
    runs         \* the record of the last stress test, if any

vars == <<pc, risks, dirExists, file, priorFile, data, result, df, train_df, held_df, mi_model,
          test_df, orig_df, params, rng, globalRng, ambientDraws, runs>>

reportVars == <<risks, dirExists, file, priorFile, data>>
scanVars == <<df>>
miVars == <<train_df, held_df, mi_model>>
advVars == <<test_df, orig_df, params, rng, globalRng, ambientDraws, runs>>

-----------------------------------------------------------------------------
(* Small helpers                                                           *)

RECURSIVE SeqsUpTo(_, _)
\* All sequences over S of length at most n.
SeqsUpTo(S, n) ==
    IF n = 0 THEN {<<>>}
    ELSE LET shorter == SeqsUpTo(S, n - 1)
         IN  shorter \cup {Append(s, x) : s \in {t \in shorter : Len(t) = n - 1}, x \in S}

Max2(a, b) == IF a >= b THEN a ELSE b

RECURSIVE SumSeq(_)
SumSeq(s) == IF s = <<>> THEN 0 ELSE Head(s) + SumSeq(Tail(s))

-----------------------------------------------------------------------------
(* RiskScore and assemble_security_report                                  *)

\* Largest number of RiskScores handed to assemble_security_report.
MaxRisks == 3

TaxonomyNames == {"OWASP-ML02-DataPoisoning", "OWASP-ML03-ML04-Privacy",
                  "OWASP-ML01-AdversarialEvasion"}

\* The names the modelled callers pass (two suffice to see order and repeats).
RiskNames == {"OWASP-ML02-DataPoisoning", "OWASP-ML01-AdversarialEvasion"}

Levels == {"low", "medium", "high"}

\* level is a plain str in the dataclass: nothing restricts it to Levels.
LevelValues == Levels \cup {"unknown"}

\* details is an open dict; two contents, one harmless and one alarming.
DetailValues == {"no-findings", "critical-findings"}

\* recommendations are fixed per check type.
RecommendationsOf(name) ==
    IF name = "OWASP-ML02-DataPoisoning"
        THEN <<"Review upstream data sources and retrace provenance chain.">>
    ELSE IF name = "OWASP-ML03-ML04-Privacy"
        THEN <<"Reduce overfitting (regularisation, more data, early stopping).">>
    ELSE <<"Introduce adversarial training (FGSM/PGD) in CI pipelines.">>

RiskScore(name, level, details) ==
    [name |-> name, level |-> level, details |-> details,
     recommendations |-> RecommendationsOf(name)]

RiskScores == {RiskScore(n, l, d) : n \in RiskNames, l \in LevelValues, d \in DetailValues}

to_dict(risk) ==
    [name |-> risk.name, level |-> risk.level, details |-> risk.details,
     recommendations |-> risk.recommendations]

severity_map == [l \in Levels |-> CASE l = "low" -> 0 [] l = "medium" -> 1 [] l = "high" -> 2]

\* severity_map[risk["level"]] raises KeyError for a level that is no key.
HasKeyError(entries) == \E i \in 1..Len(entries) : entries[i].level \notin DOMAIN severity_map

RECURSIVE MaxSeverity(_)
\* max(..., default=0) over the entries' severities.
MaxSeverity(entries) ==
    IF entries = <<>> THEN 0
    ELSE Max2(severity_map[Head(entries).level], MaxSeverity(Tail(entries)))

\* A variant that lets the content of details raise the aggregate.
aggregate_level_reads_details(entries) ==
    IF \E i \in 1..Len(entries) : entries[i].details = "critical-findings"
        THEN 2
        ELSE MaxSeverity(entries)

\* max((severity_map[risk["level"]] for risk in risk_entries), default=0)
aggregate_level(entries) == MaxSeverity(entries)

\* reverse_map.get(aggregate_level, "low")
aggregate_label(entries) ==
    LET lvl == aggregate_level(entries)
    IN  IF \E l \in Levels : severity_map[l] = lvl
            THEN CHOOSE l \in Levels : severity_map[l] = lvl
            ELSE "low"

RECURSIVE FirstOccurrences(_, _)
FirstOccurrences(names, seen) ==
    IF names = <<>> THEN <<>>
    ELSE IF Head(names) \in seen THEN FirstOccurrences(Tail(names), seen)
    ELSE <<Head(names)>> \o FirstOccurrences(Tail(names), seen \cup {Head(names)})

\* A variant that drops repeated names.
owasp_mappings_deduplicated(entries) ==
    FirstOccurrences([i \in 1..Len(entries) |-> entries[i].name], {})

\* [risk["name"] for risk in risk_entries]
owasp_mappings(entries) == [i \in 1..Len(entries) |-> entries[i].name]

TheManifest == [train |-> "train-manifest", test |-> "test-manifest"]

MitreAtlasFocus == <<"ML Attack Staging", "ML Model Access", "ML Attack Execution">>

\* The report dict built by assemble_security_report.
BuildReport(manifest, rs) ==
    LET risk_entries == [i \in 1..Len(rs) |-> to_dict(rs[i])]
    IN  [manifest |-> manifest,
         risks |-> risk_entries,
         aggregate_risk_level |-> aggregate_label(risk_entries),
         owasp_mappings |-> owasp_mappings(risk_entries),
         mitre_atlas_focus |-> MitreAtlasFocus]

\* json.dumps(report, indent=2): the document as its key/value members in order.
ReportKeys == <<"manifest", "risks", "aggregate_risk_level", "owasp_mappings",
                "mitre_atlas_focus">>

Dumps(report) == [i \in 1..Len(ReportKeys) |-> <<ReportKeys[i], report[ReportKeys[i]]>>]

\* A document is complete when all its members are there.
IsCompleteDocument(content) ==
    /\ Len(content) = Len(ReportKeys)
    /\ \A i \in 1..Len(content) : content[i][1] = ReportKeys[i]

\* json.loads of a complete document.
Loads(content) == [k \in {ReportKeys[i] : i \in 1..Len(ReportKeys)} |->
                     LET i == CHOOSE j \in 1..Len(ReportKeys) : ReportKeys[j] = k
                     IN  content[i][2]]

\* The report an earlier scan run left at the report path.
PriorReport == BuildReport(TheManifest, <<RiskScore("OWASP-ML02-DataPoisoning", "high",
                                                     "critical-findings")>>)

NoFile == [exists |-> FALSE, content |-> <<>>]

FileWith(content) == [exists |-> TRUE, content |-> content]

-----------------------------------------------------------------------------
(* Values the variables of the other components hold while one runs        *)

NoResult == [kind |-> "none"]

Raised(error) == [kind |-> "error", error |-> error]

ReportIdle == /\ risks = <<>>
              /\ dirExists = FALSE
              /\ file = NoFile
              /\ priorFile = NoFile
              /\ data = <<>>

ScanIdle == df = <<>>

MembershipIdle == /\ train_df = <<>>
                  /\ held_df = <<>>
                  /\ mi_model = NoResult

AdversarialIdle == /\ test_df = <<>>
                   /\ orig_df = <<>>
                   /\ params = NoResult
                   /\ rng = 0
                   /\ globalRng = 0
                   /\ ambientDraws = 0
                   /\ runs = <<>>

-----------------------------------------------------------------------------
(* assemble_security_report, step by step down to the report file          *)

ReportFileName == "mlsecops_security_report.json"

\* A variant that opens the report path for writing before the report is built.
report_path_opened_early(f) == FileWith(<<>>)

\* The file at the report path while the report is built and serialised: the
\* path is first used by write_text, after json.dumps returned.
report_path_before_write(f) == f

\* output_dir.mkdir(parents=True, exist_ok=True), then the report is built and
\* serialised; a level that is no key of severity_map raises KeyError here.
AssembleBegin ==
    /\ pc = "idle"
    /\ \E rs \in SeqsUpTo(RiskScores, MaxRisks) :
        /\ risks' = rs
        /\ dirExists' = TRUE
        /\ IF HasKeyError(rs)
              THEN /\ pc' = "raised"
                   /\ result' = Raised("KeyError")
                   /\ data' = <<>>
              ELSE /\ pc' = "open"
                   /\ result' = NoResult
                   /\ data' = Dumps(BuildReport(TheManifest, rs))
    /\ file' = report_path_before_write(file)
    /\ UNCHANGED <<priorFile, scanVars, miVars, advVars>>

\* report_path.write_text opens the path with mode "w": the file is created,
\* or truncated when it exists.
OpenTruncate ==
    /\ pc = "open"
    /\ pc' = "write"
    /\ file' = FileWith(<<>>)
    /\ UNCHANGED <<risks, dirExists, priorFile, data, result, scanVars, miVars, advVars>>

\* open() raises OSError (path unwritable): nothing was touched.
OpenFails ==
    /\ pc = "open"
    /\ pc' = "raised"
    /\ result' = Raised("OSError")
    /\ UNCHANGED <<risks, dirExists, file, priorFile, data, scanVars, miVars, advVars>>

\* The next part of the serialised document reaches the file.
WriteChunk ==
    /\ pc = "write"
    /\ Len(file.content) < Len(data)
    /\ file' = FileWith(Append(file.content, data[Len(file.content) + 1]))
    /\ UNCHANGED <<pc, risks, dirExists, priorFile, data, result, scanVars, miVars, advVars>>

\* The write raises OSError part-way (disk full, I/O error): what was written stays.
WriteFails ==
    /\ pc = "write"
    /\ Len(file.content) < Len(data)
    /\ pc' = "raised"
    /\ result' = Raised("OSError")
    /\ UNCHANGED <<risks, dirExists, file, priorFile, data, scanVars, miVars, advVars>>

\* return {"report": report, "path": report_path}
AssembleReturn ==
    /\ pc = "write"
    /\ Len(file.content) = Len(data)
    /\ pc' = "returned"
    /\ result' = [kind |-> "report",
                  report |-> BuildReport(TheManifest, risks),
                  path |-> ReportFileName]
    /\ UNCHANGED <<risks, dirExists, file, priorFile, data, scanVars, miVars, advVars>>

Init ==
    /\ pc = "idle"
    /\ result = NoResult
    /\ risks = <<>>
    /\ data = <<>>
    /\ file \in {NoFile, FileWith(Dumps(PriorReport))}
    /\ priorFile = file
    /\ dirExists \in {file.exists, TRUE}
    /\ ScanIdle
    /\ MembershipIdle
    /\ AdversarialIdle

Next ==
    \/ AssembleBegin
    \/ OpenTruncate
    \/ OpenFails
    \/ WriteChunk
    \/ WriteFails
    \/ AssembleReturn

Spec == Init /\ [][Next]_vars

-----------------------------------------------------------------------------
(* scan_for_data_poisoning                                                 *)

\* Largest number of rows of a split handed to the scanner.
MaxRows == 5

Labels == {"yes", "no"}

\* The numeric columns of the modelled splits, in the caller's order.
NumericColumns == <<"x", "y">>

NumericValues == {0, 1}

\* A row of a scanned split: its label and its numeric cells.
ScanRows == [label : Labels, x : NumericValues, y : NumericValues]

RECURSIVE InsertSorted(_, _)
InsertSorted(v, s) ==
    IF s = <<>> THEN <<v>>
    ELSE IF v <= Head(s) THEN <<v>> \o s
    ELSE <<Head(s)>> \o InsertSorted(v, Tail(s))

RECURSIVE SortedValues(_)
SortedValues(s) == IF s = <<>> THEN <<>> ELSE InsertSorted(Head(s), SortedValues(Tail(s)))

\* df[column]
Column(d, column) == [i \in 1..Len(d) |-> d[i][column]]

\* int(df.duplicated().sum()): rows equal to an earlier row.
duplicate_rows(d) == Cardinality({i \in 1..Len(d) : \E j \in 1..(i - 1) : d[j] = d[i]})

\* df[label_column].value_counts(normalize=True).to_dict(): label -> frequency,
\* the frequency count/len kept as the pair <<count, len>>.
class_balance(d) ==
    [l \in {d[i].label : i \in 1..Len(d)} |->
        <<Cardinality({i \in 1..Len(d) : d[i].label = l}), Len(d)>>]

\* A variant that raises the issue at a frequency of exactly 0.75 too.
majority_reaches(balance) == \E l \in DOMAIN balance : 4 * balance[l][1] >= 3 * balance[l][2]

\* majority > 0.75 for majority = max(class_balance.values()).
majority_exceeds(balance) == \E l \in DOMAIN balance : 4 * balance[l][1] > 3 * balance[l][2]

\* The greatest count among the labels (the numerator of majority).
majority_count(balance) ==
    CHOOSE c \in {balance[l][1] : l \in DOMAIN balance} :
        \A l \in DOMAIN balance : balance[l][1] <= c

\* series.quantile(q) for q = num/4 with linear interpolation, times 4:
\* position (n-1)*q between the sorted values, fraction kept exact.
Quantile4(series, num) ==
    LET sorted == SortedValues(series)
        pos4 == (Len(series) - 1) * num
        k == pos4 \div 4
        r == pos4 % 4
    IN  IF r = 0 THEN 4 * sorted[k + 1]
        ELSE 4 * sorted[k + 1] + r * (sorted[k + 2] - sorted[k + 1])

\* int(mask.sum()) for one column: values outside [q1 - 3*iqr, q3 + 3*iqr].
column_outliers(series) ==
    LET q1 == Quantile4(series, 1)
        q3 == Quantile4(series, 3)
        iqr == q3 - q1
        lower == q1 - (3 * iqr)
        upper == q3 + (3 * iqr)
    IN  Cardinality({i \in 1..Len(series) : 4 * series[i] < lower \/ 4 * series[i] > upper})

\* A variant that counts a row once, however many of its columns offend.
outlier_rows_once_per_row(d, columns) ==
    Cardinality({i \in 1..Len(d) :
        \E c \in 1..Len(columns) :
            LET series == Column(d, columns[c])
                q1 == Quantile4(series, 1)
                q3 == Quantile4(series, 3)
            IN  \/ 4 * series[i] < q1 - 3 * (q3 - q1)
                \/ 4 * series[i] > q3 + 3 * (q3 - q1)})

RECURSIVE outlier_rows(_, _)
\* outlier_rows summed over the numeric columns.
outlier_rows(d, columns) ==
    IF columns = <<>> THEN 0
    ELSE column_outliers(Column(d, Head(columns))) + outlier_rows(d, Tail(columns))

\* The issues list, in the order the heuristics append to it.
scan_issues(d) ==
    LET duplicates == duplicate_rows(d)
        balance == class_balance(d)
        outliers == outlier_rows(d, NumericColumns)
    IN  (IF duplicates # 0
            THEN <<[issue |-> "duplicated rows detected", count |-> duplicates]>>
            ELSE <<>>)
        \o (IF majority_exceeds(balance)
            THEN <<[issue |-> "Label imbalance detected", count |-> majority_count(balance)]>>
            ELSE <<>>)
        \o (IF outliers # 0
            THEN <<[issue |-> "numeric rows outside 3*IQR boundaries", count |-> outliers]>>
            ELSE <<>>)

\* A variant of the severity policy that reports high only for three issues.
scan_level_high_needs_all(issues) ==
    IF issues = <<>> THEN "low"
    ELSE IF Len(issues) <= 2 THEN "medium"
    ELSE "high"

\* The severity policy of the scanner.
scan_level(issues) ==
    IF issues = <<>> THEN "low"
    ELSE IF Len(issues) = 1 THEN "medium"
    ELSE "high"

\* The call: max() of an empty class_balance raises ValueError.
scan_for_data_poisoning(d) ==
    IF d = <<>> THEN Raised("ValueError")
    ELSE LET issues == scan_issues(d)
         IN  [kind |-> "risk",
              risk |-> RiskScore("OWASP-ML02-DataPoisoning",
                                 scan_level(issues),
                                 [issues |-> issues, class_balance |-> class_balance(d)])]

ScanCall ==
    /\ pc = "idle"
    /\ \E d \in SeqsUpTo(ScanRows, MaxRows) :
        LET outcome == scan_for_data_poisoning(d)
        IN  /\ df' = d
            /\ result' = outcome
            /\ pc' = IF outcome.kind = "error" THEN "raised" ELSE "returned"
    /\ UNCHANGED <<reportVars, miVars, advVars>>

\* The caller takes the outcome and is ready for the next split.
ScanDone ==
    /\ pc \in {"returned", "raised"}
    /\ pc' = "idle"
    /\ df' = <<>>
    /\ result' = NoResult
    /\ UNCHANGED <<reportVars, miVars, advVars>>

ScanInit ==
    /\ pc = "idle"
    /\ result = NoResult
    /\ ReportIdle
    /\ ScanIdle
    /\ MembershipIdle
    /\ AdversarialIdle

ScanNext ==
    \/ ScanCall
    \/ ScanDone

ScanSpec == ScanInit /\ [][ScanNext]_vars

-----------------------------------------------------------------------------
(* evaluate_membership_inference_risk                                      *)

\* Largest number of rows of a split handed to the assessor.
MaxSplitRows == 2

FeatureValues == {1, 2, 3}

\* A row of a split: the label column and one feature column.
SplitRows == [label : Labels, f : FeatureValues]

\* Trained models: the top class probability (in hundredths) the model gives a
\* row with feature f, and whether its predict_proba accepts zero rows (a
\* scikit-learn Pipeline raises ValueError for an empty input; a duck-typed
\* model may return an empty array).
Models ==
    {[conf |-> <<50, 58, 65>>, acceptsEmpty |-> FALSE],
     [conf |-> <<50, 58, 65>>, acceptsEmpty |-> TRUE],
     [conf |-> <<90, 74, 50>>, acceptsEmpty |-> FALSE]}

\* train_df.drop(columns=[label_column])
DropLabel(d) == [i \in 1..Len(d) |-> [f |-> d[i].f]]

\* model.predict_proba(features).max(axis=1)
TopConfidence(model, features) == [i \in 1..Len(features) |-> model.conf[features[i].f]]

\* A float kept exact as the fraction <<numerator, denominator>>; <<0, 0>> is NaN.
NaN == <<0, 0>>

\* conf.mean(): sum / size, NaN for an empty array.
Mean(conf) == IF conf = <<>> THEN NaN ELSE <<SumSeq(conf), Len(conf)>>

\* conf.var(): mean of squares minus squared mean (ddof = 0), NaN when empty.
Var(conf) ==
    IF conf = <<>> THEN NaN
    ELSE <<Len(conf) * SumSeq([i \in 1..Len(conf) |-> conf[i] * conf[i]])
               - SumSeq(conf) * SumSeq(conf),
           Len(conf) * Len(conf)>>

\* a - b on fractions; NaN when either is NaN.
Minus(a, b) ==
    IF a[2] = 0 \/ b[2] = 0 THEN NaN
    ELSE <<a[1] * b[2] - b[1] * a[2], a[2] * b[2]>>

\* a > c/100 on a fraction of hundredths; False for NaN.
Exceeds(a, c) == a[2] # 0 /\ a[1] > c * a[2]

\* confidence_gap > 0.15
HighGap == 15

\* confidence_gap > 0.08
MediumGap == 8

\* A variant that subtracts the greatest held-out confidence, not the mean.
confidence_gap_to_max(train_conf, test_conf) ==
    IF test_conf = <<>> THEN NaN
    ELSE Minus(Mean(train_conf),
               <<CHOOSE v \in {test_conf[i] : i \in 1..Len(test_conf)} :
                     \A i \in 1..Len(test_conf) : test_conf[i] <= v, 1>>)

\* confidence_gap = float(train_conf.mean() - test_conf.mean())
confidence_gap(train_conf, test_conf) == Minus(Mean(train_conf), Mean(test_conf))

\* variance_gap = float(train_conf.var() - test_conf.var())
variance_gap(train_conf, test_conf) == Minus(Var(train_conf), Var(test_conf))

\* A variant whose thresholds are inclusive.
membership_level_inclusive(gap) ==
    IF gap[2] # 0 /\ gap[1] >= HighGap * gap[2] THEN "high"
    ELSE IF gap[2] # 0 /\ gap[1] >= MediumGap * gap[2] THEN "medium"
    ELSE "low"

\* confidence_gap > 0.15 -> high; > 0.08 -> medium; else low.
membership_level(gap) ==
    IF Exceeds(gap, HighGap) THEN "high"
    ELSE IF Exceeds(gap, MediumGap) THEN "medium"
    ELSE "low"

evaluate_membership_inference_risk(model, train, held) ==
    IF (train = <<>> \/ held = <<>>) /\ ~model.acceptsEmpty
        THEN Raised("ValueError")
    ELSE LET train_conf == TopConfidence(model, DropLabel(train))
             test_conf == TopConfidence(model, DropLabel(held))
             gap == confidence_gap(train_conf, test_conf)
         IN  [kind |-> "risk",
              risk |-> RiskScore("OWASP-ML03-ML04-Privacy", membership_level(gap),
                                 [train_confidence_mean |-> Mean(train_conf),
                                  test_confidence_mean |-> Mean(test_conf),
                                  confidence_gap |-> gap,
                                  variance_gap |-> variance_gap(train_conf, test_conf)])]

MembershipCall ==
    /\ pc = "idle"
    /\ \E model \in Models, train \in SeqsUpTo(SplitRows, MaxSplitRows),
          held \in SeqsUpTo(SplitRows, MaxSplitRows) :
        LET outcome == evaluate_membership_inference_risk(model, train, held)
        IN  /\ train_df' = train
            /\ held_df' = held
            /\ mi_model' = model
            /\ result' = outcome
            /\ pc' = IF outcome.kind = "error" THEN "raised" ELSE "returned"
    /\ UNCHANGED <<reportVars, scanVars, advVars>>

\* The caller takes the outcome and is ready for the next assessment.
MembershipDone ==
    /\ pc \in {"returned", "raised"}
    /\ pc' = "idle"
    /\ train_df' = <<>>
    /\ held_df' = <<>>
    /\ mi_model' = NoResult
    /\ result' = NoResult
    /\ UNCHANGED <<reportVars, scanVars, advVars>>

MembershipInit ==
    /\ pc = "idle"
    /\ result = NoResult
    /\ ReportIdle
    /\ ScanIdle
    /\ MembershipIdle
    /\ AdversarialIdle

MembershipNext ==
    \/ MembershipCall
    \/ MembershipDone

MembershipSpec == MembershipInit /\ [][MembershipNext]_vars

-----------------------------------------------------------------------------
(* run_adversarial_stress_test                                             *)

\* Largest number of rows of the split under stress test.
MaxTestRows == 2

\* Number of states of a random generator.
RngStates == 4

\* How many times other code of the process draws from the ambient source.
MaxAmbientDraws == 1

\* Numbers with a fractional part are kept in thousandths.
Milli == 1000

\* Accuracies are kept in sixtieths (exact for splits of up to six rows).
AccuracyUnit == 60

AdvNumericColumns == <<"x">>

\* Rows of the split: a label, one numeric cell (thousandths), the free text
\* as the list of its space-separated phrases.
TestRows == [label : Labels, x : {1 * Milli, 3 * Milli}, text : {<<"note">>}]

TriggerPhrase == "trigger"

\* Trained models: predict answers "yes" for x at or above the threshold, and
\* a model with a backdoor answers "no" whenever the text holds the trigger.
Classifiers == [threshold : {2 * Milli}, backdoor : BOOLEAN]

\* Baseline accuracies (sixtieths): 1/12, 0.10, 11/60, 0.20, 1.
Baselines == {5, 6, 11, 12, 60}

\* Noise scales epsilon (thousandths): 0 and 1.
Epsilons == {0, 1 * Milli}

Seeds == {7, 42}

\* np.random.default_rng(seed): the state a seed gives.
default_rng(seed) == seed % RngStates

\* The state of a generator after k draws.
AfterDraws(g, k) == (g + 3 * k) % RngStates

\* A standard-normal draw in the state g, in whole standard deviations.
StandardNormal(g) == (g % 5) - 2

\* A uniform draw of [0, 1) in the state g is g / RngStates; u < 0.3.
UniformBelowThreshold(g) == 10 * g < 3 * RngStates

RECURSIVE SqrtBetween(_, _, _)
\* The integer square root of v, searched in lo..hi.
SqrtBetween(v, lo, hi) ==
    IF lo >= hi THEN lo
    ELSE LET mid == (lo + hi + 1) \div 2
         IN  IF mid * mid <= v THEN SqrtBetween(v, mid, hi)
             ELSE SqrtBetween(v, lo, mid - 1)

\* series.std(ddof=0) in thousandths (NaN of an empty series kept as 0).
Std(series) ==
    IF series = <<>> THEN 0
    ELSE LET n == Len(series)
             var == (n * SumSeq([i \in 1..n |-> series[i] * series[i]])
                        - SumSeq(series) * SumSeq(series)) \div (n * n)
         IN  SqrtBetween(var, 0, 4 * Milli)

\* A variant without .replace(0, 1): a zero deviation stays zero.
numeric_stats_unreplaced(d, columns) ==
    [c \in 1..Len(columns) |-> Std(Column(d, columns[c]))]

\* test_df[list(numeric_columns)].std(ddof=0).replace(0, 1), per column.
numeric_stats(d, columns) ==
    [c \in 1..Len(columns) |->
        LET std == Std(Column(d, columns[c]))
        IN  IF std = 0 THEN 1 * Milli ELSE std]

\* np.clip(numeric_stats * epsilon, 1e-3, None), per column.
noise_scale(d, columns, epsilon) ==
    [c \in 1..Len(columns) |->
        Max2((numeric_stats(d, columns)[c] * epsilon) \div Milli, 1)]

\* A variant that draws from the ambient np.random source.
random_source_ambient(own, ambient) == ambient

\* The generator rng.normal and rng.random draw from: the one passed in (or
\* made from seed 42), never the ambient np.random source.
random_source(own, ambient) == own

\* noise = rng.normal(loc=0.0, scale=..., size=(rows, columns)), row by row.
noise(g, d, columns, epsilon) ==
    [i \in 1..Len(d) |->
        [c \in 1..Len(columns) |->
            StandardNormal(AfterDraws(g, (i - 1) * Len(columns) + (c - 1)))
                * noise_scale(d, columns, epsilon)[c]]]

\* trigger_mask = rng.random(len(perturbed)) < 0.3, drawn after the noise.
trigger_mask(g, d, columns) ==
    [i \in 1..Len(d) |->
        UniformBelowThreshold(AfterDraws(g, Len(d) * Len(columns) + (i - 1)))]

\* The generator after the noise and the trigger mask were drawn.
rng_after(g, d, columns) == AfterDraws(g, Len(d) * Len(columns) + Len(d))

\* perturbed: the copy with the noise added and the trigger phrase appended.
Perturbed(g, d, epsilon, trigger_phrase) ==
    [i \in 1..Len(d) |->
        [label |-> d[i].label,
         x |-> d[i].x + noise(g, d, AdvNumericColumns, epsilon)[i][1],
         text |-> IF trigger_mask(g, d, AdvNumericColumns)[i]
                     THEN Append(d[i].text, trigger_phrase)
                     ELSE d[i].text]]

\* A variant in which perturbed is the caller's frame itself, not a copy.
copy_deep_aliased(original, written) == written

\* test_df.copy(deep=True): what the caller's frame holds once the copy was
\* written to.
copy_deep(original, written) == original

\* model.predict on one row of features.
Predict(model, row) ==
    IF model.backdoor /\ \E k \in 1..Len(row.text) : row.text[k] = TriggerPhrase
        THEN "no"
    ELSE IF row.x >= model.threshold THEN "yes"
    ELSE "no"

\* accuracy_score(labels, adv_predictions), in sixtieths.
accuracy_score(model, rows) ==
    (AccuracyUnit * Cardinality({i \in 1..Len(rows) : Predict(model, rows[i]) = rows[i].label}))
        \div Len(rows)

\* A variant without the clamp at zero.
degradation_unclamped(baseline_accuracy, adv_accuracy) == baseline_accuracy - adv_accuracy

\* degradation = float(max(0.0, baseline_accuracy - adv_accuracy))
degradation(baseline_accuracy, adv_accuracy) == Max2(0, baseline_accuracy - adv_accuracy)

\* A variant whose thresholds are exclusive.
stress_level_exclusive(d) ==
    IF 5 * d > AccuracyUnit THEN "high"
    ELSE IF 10 * d > AccuracyUnit THEN "medium"
    ELSE "low"

\* degradation >= 0.2 -> high; >= 0.1 -> medium; else low.
stress_level(d) ==
    IF 5 * d >= AccuracyUnit THEN "high"
    ELSE IF 10 * d >= AccuracyUnit THEN "medium"
    ELSE "low"

\* A variant that takes the share over all the rows, triggered or not.
targeted_success_all_rows(model, rows, mask) ==
    IF {i \in 1..Len(rows) : mask[i]} = {} THEN <<0, 1>>
    ELSE <<Cardinality({i \in 1..Len(rows) : Predict(model, rows[i]) # rows[i].label}),
           Len(rows)>>

\* targeted_success: the share of triggered rows predicted off their label, as
\* <<wrong, triggered>>; 0.0 (kept as <<0, 1>>) when no row was triggered.
targeted_success(model, rows, mask) ==
    LET triggered == {i \in 1..Len(rows) : mask[i]}
    IN  IF triggered = {} THEN <<0, 1>>
        ELSE <<Cardinality({i \in triggered : Predict(model, rows[i]) # rows[i].label}),
               Cardinality(triggered)>>

\* The call with the generator g (model.predict raises ValueError on no rows).
run_adversarial_stress_test(p, d, g) ==
    IF d = <<>> THEN Raised("ValueError")
    ELSE LET perturbed == Perturbed(g, d, p.epsilon, p.trigger_phrase)
             mask == trigger_mask(g, d, AdvNumericColumns)
             adv_accuracy == accuracy_score(p.model, perturbed)
             degr == degradation(p.baseline_accuracy, adv_accuracy)
         IN  [kind |-> "risk",
              risk |-> RiskScore("OWASP-ML01-AdversarialEvasion", stress_level(degr),
                  [baseline_accuracy |-> p.baseline_accuracy,
                   adversarial_accuracy |-> adv_accuracy,
                   accuracy_degradation |-> degr,
                   triggered_subset_size |-> Cardinality({i \in 1..Len(d) : mask[i]}),
                   targeted_success_rate |-> targeted_success(p.model, perturbed, mask)])]

\* A variant that seeds the ambient source inside the call (np.random.seed(42)).
ambient_after_call_seeded(ambient) == default_rng(42)

\* The ambient np.random source after a call: the call never touches it.
ambient_after_call(ambient) == ambient

\* What a call leaves in the state: the caller's frame, the ambient source, the
\* outcome, and the record of the run (generator state at entry, whether the
\* caller supplied the generator, the noise scale of each numeric column, the
\* outcome, whether the run before it started from the same generator state).
StressTestEffect(entry, supplied) ==
    LET g == random_source(entry, globalRng)
        outcome == run_adversarial_stress_test(params, test_df, g)
    IN  /\ test_df' = copy_deep(test_df, Perturbed(g, test_df, params.epsilon,
                                                   params.trigger_phrase))
        /\ globalRng' = ambient_after_call(globalRng)
        /\ result' = outcome
        /\ runs' = <<[entry |-> entry,
                      supplied |-> supplied,
                      scale |-> noise_scale(test_df, AdvNumericColumns, params.epsilon),
                      outcome |-> outcome,
                      repeated |-> runs # <<>> /\ runs[1].entry = entry]>>
        /\ pc' = IF outcome.kind = "error" THEN "raised" ELSE "returned"

\* The caller passes its own generator: the call advances it.
StressTestWithRng ==
    /\ StressTestEffect(rng, TRUE)
    /\ rng' = rng_after(rng, test_df, AdvNumericColumns)
    /\ UNCHANGED <<orig_df, params, ambientDraws, reportVars, scanVars, miVars>>

\* The caller passes rng=None: the call makes its own generator from seed 42.
StressTestDefaultRng ==
    /\ StressTestEffect(default_rng(42), FALSE)
    /\ UNCHANGED <<orig_df, params, rng, ambientDraws, reportVars, scanVars, miVars>>

\* The caller makes a new generator from a seed.
Reseed ==
    /\ \E seed \in Seeds : rng' = default_rng(seed)
    /\ UNCHANGED <<pc, result, test_df, orig_df, params, globalRng, ambientDraws, runs,
                   reportVars, scanVars, miVars>>

\* Other code of the process draws from the ambient np.random source.
AmbientDraw ==
    /\ ambientDraws < MaxAmbientDraws
    /\ ambientDraws' = ambientDraws + 1
    /\ globalRng' = AfterDraws(globalRng, 1)
    /\ UNCHANGED <<pc, result, test_df, orig_df, params, rng, runs,
                   reportVars, scanVars, miVars>>

AdversarialInit ==
    /\ pc = "idle"
    /\ result = NoResult
    /\ ReportIdle
    /\ ScanIdle
    /\ MembershipIdle
    /\ test_df \in SeqsUpTo(TestRows, MaxTestRows)
    /\ orig_df = test_df
    /\ params \in [model : Classifiers, baseline_accuracy : Baselines,
                   epsilon : Epsilons, trigger_phrase : {TriggerPhrase}]
    /\ rng \in {default_rng(seed) : seed \in Seeds}
    /\ globalRng = 0
    /\ ambientDraws = 0
    /\ runs = <<>>

AdversarialNext ==
    \/ StressTestWithRng
    \/ StressTestDefaultRng
    \/ Reseed
    \/ AmbientDraw

AdversarialSpec == AdversarialInit /\ [][AdversarialNext]_vars

-----------------------------------------------------------------------------
(* Properties of scan_for_data_poisoning (checked under ScanSpec)          *)

\* Each heuristic stated on the split itself.
DuplicatesPresent(d) == \E i, j \in 1..Len(d) : i < j /\ d[i] = d[j]

LabelImbalanced(d) ==
    \E l \in Labels : 4 * Cardinality({i \in 1..Len(d) : d[i].label = l}) > 3 * Len(d)

OutliersPresent(d) == \E i \in 1..Len(NumericColumns) :
                          column_outliers(Column(d, NumericColumns[i])) > 0

HeuristicsRaised(d) ==
    (IF DuplicatesPresent(d) THEN 1 ELSE 0)
        + (IF LabelImbalanced(d) THEN 1 ELSE 0)
        + (IF OutliersPresent(d) THEN 1 ELSE 0)

\* The severity policy and the issue count of the claim, for a finished call.
LevelCountsIssues ==
    /\ result.kind = "risk"
    /\ LET n == HeuristicsRaised(df)
       IN  /\ Len(result.risk.details.issues) = n
           /\ n = 0 => result.risk.level = "low"
           /\ n = 1 => result.risk.level = "medium"
           /\ n >= 2 => result.risk.level = "high"

-----------------------------------------------------------------------------
(* Properties of assemble_security_report (checked under Spec)             *)

\* The order low < medium < high, stated on its own.
LevelAtMost(a, b) == <<a, b>> \in {<<"low", "low">>, <<"low", "medium">>, <<"low", "high">>,
                                   <<"medium", "medium">>, <<"medium", "high">>,
                                   <<"high", "high">>}

LevelsOf(rs) == {rs[i].level : i \in 1..Len(rs)}

\* C2: the aggregate risk level of a returned report is the greatest level among
\* the RiskScores passed in under low < medium < high, and "low" for an empty
\* collection: it is fixed by the level fields alone, whatever details hold.
C2_AggregateIsMaxLevel ==
    result.kind = "report" =>
        LET agg == result.report.aggregate_risk_level
        IN  IF risks = <<>>
                THEN agg = "low"
                ELSE /\ agg \in LevelsOf(risks)
                     /\ \A l \in LevelsOf(risks) : LevelAtMost(l, agg)

\* A report returned for [low, medium, low], one entry with alarming details.
C2_Witness ==
    /\ result.kind = "report"
    /\ Len(risks) = 3
    /\ risks[1].level = "low" /\ risks[2].level = "medium" /\ risks[3].level = "low"
    /\ risks[1].details = "critical-findings"
    /\ result.report.aggregate_risk_level = "medium"

\* C3: owasp_mappings of a returned report lists the names of the RiskScores in
\* input order: same length, the i-th mapping is the i-th input's name and the
\* name of the i-th entry of "risks" (repeats kept, nothing reordered).
C3_MappingsFollowInput ==
    result.kind = "report" =>
        LET om == result.report.owasp_mappings
        IN  /\ Len(om) = Len(risks)
            /\ Len(result.report.risks) = Len(risks)
            /\ \A i \in 1..Len(risks) :
                 /\ om[i] = risks[i].name
                 /\ om[i] = result.report.risks[i].name

\* A report returned for names given out of alphabetical order with a repeat.
C3_Witness ==
    /\ result.kind = "report"
    /\ Len(risks) = 3
    /\ risks[1].name = "OWASP-ML02-DataPoisoning"
    /\ risks[2].name = "OWASP-ML01-AdversarialEvasion"
    /\ risks[3].name = "OWASP-ML02-DataPoisoning"
    /\ result.report.owasp_mappings = <<"OWASP-ML02-DataPoisoning",
                                        "OWASP-ML01-AdversarialEvasion",
                                        "OWASP-ML02-DataPoisoning">>

\* C4: at every moment, failed or interrupted writes included, the report path
\* holds what it held before the call (nothing, or the complete previous
\* report) or the complete new report, never a truncated or partial document.
C4_ReportWriteAtomic ==
    \/ file = priorFile
    \/ /\ file.exists
       /\ data # <<>>
       /\ file.content = data
       /\ IsCompleteDocument(file.content)

\* The names a report mentions anywhere: its mappings, its entries, their details.
NamesRecorded(report) ==
    {report.owasp_mappings[i] : i \in 1..Len(report.owasp_mappings)}
        \cup {report.risks[i].name : i \in 1..Len(report.risks)}
        \cup {report.risks[i].details : i \in 1..Len(report.risks)}
        \cup {report.mitre_atlas_focus[i] : i \in 1..Len(report.mitre_atlas_focus)}
        \cup {report.manifest.train, report.manifest.test}

NamesGiven(rs) == {rs[i].name : i \in 1..Len(rs)}

\* C5: a report assembled from a partial set of RiskScores records, somewhere in
\* the report, each assessment of the taxonomy that is absent from the set.
C5_AbsentAssessmentsRecorded ==
    result.kind = "report" =>
        \A n \in TaxonomyNames \ NamesGiven(risks) : n \in NamesRecorded(result.report)

-----------------------------------------------------------------------------
(* Properties of evaluate_membership_inference_risk (under MembershipSpec) *)

\* C6: a call with an empty training split or an empty held-out split ends
\* with EmptyDatasetError and never with a RiskScore.
C6_EmptySplitRaisesEmptyDatasetError ==
    (pc \in {"returned", "raised"} /\ (train_df = <<>> \/ held_df = <<>>)) =>
        result = Raised("EmptyDatasetError")

\* The membership assessment returned a RiskScore for two non-empty splits.
MembershipReturned ==
    /\ pc = "returned"
    /\ result.kind = "risk"
    /\ train_df # <<>>
    /\ held_df # <<>>

\* The sum of the model's top confidences (hundredths) over the rows of a split.
ConfidenceSum(d) == SumSeq([i \in 1..Len(d) |-> mi_model.conf[d[i].f]])

\* C11: confidence_gap is the mean train top-confidence minus the mean held-out
\* top-confidence, and the level is high when confidence_gap > 0.15, medium when
\* 0.08 < confidence_gap <= 0.15, low otherwise (every negative gap included).
C11_LevelByConfidenceGap ==
    MembershipReturned =>
        LET gap == result.risk.details.confidence_gap
            level == result.risk.level
        IN  /\ gap[2] > 0
            \* gap = sum(train)/len(train) - sum(held)/len(held), cross-multiplied
            /\ gap[1] * Len(train_df) * Len(held_df)
                   = gap[2] * (ConfidenceSum(train_df) * Len(held_df)
                                   - ConfidenceSum(held_df) * Len(train_df))
            /\ (gap[1] > 15 * gap[2]) => level = "high"
            /\ (gap[1] > 8 * gap[2] /\ gap[1] <= 15 * gap[2]) => level = "medium"
            /\ (gap[1] <= 8 * gap[2]) => level = "low"

\* A gap of exactly 0.15, reported medium.
C11_Witness ==
    /\ MembershipReturned
    /\ result.risk.details.confidence_gap[1] = 15 * result.risk.details.confidence_gap[2]
    /\ result.risk.level = "medium"

\* C12: with the same non-empty split as training and held-out split, whatever
\* the model, the call returns confidence_gap 0, variance_gap 0 and level low.
C12_SameSplitNoGap ==
    (pc \in {"returned", "raised"} /\ train_df # <<>> /\ held_df = train_df) =>
        /\ result.kind = "risk"
        /\ result.risk.details.confidence_gap[1] = 0
        /\ result.risk.details.confidence_gap[2] > 0
        /\ result.risk.details.variance_gap[1] = 0
        /\ result.risk.details.variance_gap[2] > 0
        /\ result.risk.level = "low"

\* The same two-row split on both sides, its rows of different confidence.
C12_Witness ==
    /\ pc = "returned"
    /\ Len(train_df) = 2
    /\ held_df = train_df
    /\ train_df[1].f # train_df[2].f
    /\ result.risk.level = "low"

-----------------------------------------------------------------------------
(* Properties of run_adversarial_stress_test (under AdversarialSpec)       *)

\* The last stress test returned a RiskScore.
StressTestReturned == runs # <<>> /\ runs[1].outcome.kind = "risk"

LastDetails == runs[1].outcome.risk.details

\* C7: a stress test that starts from the same random-source state as the one
\* before it, on the same model, split, columns, baseline, epsilon and trigger
\* phrase, returns the same outcome: identical adversarial_accuracy,
\* accuracy_degradation, triggered_subset_size and targeted_success_rate.
C7_SameSeedSameDetails ==
    [][(runs # <<>> /\ runs' # <<>> /\ runs'[1].entry = runs[1].entry)
           => runs'[1].outcome = runs[1].outcome]_vars

\* A second run from the same generator state, with noise and a triggered row.
C7_Witness ==
    /\ StressTestReturned
    /\ runs[1].repeated
    /\ params.epsilon > 0
    /\ LastDetails.triggered_subset_size >= 1
    /\ ambientDraws >= 1

\* C8: after a stress test every cell of the caller's split (numeric column,
\* text column, label) equals its value before the call.
C8_SplitUntouched == runs # <<>> => test_df = orig_df

\* A finished stress test whose copy got noise on a numeric cell and the
\* trigger phrase on a text cell.
C8_Witness ==
    /\ StressTestReturned
    /\ LET perturbed == Perturbed(runs[1].entry, orig_df, params.epsilon,
                                  params.trigger_phrase)
       IN  /\ \E i \in 1..Len(orig_df) : perturbed[i].x # orig_df[i].x
           /\ \E i \in 1..Len(orig_df) : perturbed[i].text # orig_df[i].text

\* C9: accuracy_degradation is max(0, baseline_accuracy - adversarial_accuracy):
\* never negative, 0 whenever the perturbed accuracy is at least the baseline,
\* the difference otherwise.
C9_DegradationClamped ==
    StressTestReturned =>
        LET base == LastDetails.baseline_accuracy
            adv == LastDetails.adversarial_accuracy
            degr == LastDetails.accuracy_degradation
        IN  /\ degr >= 0
            /\ adv >= base => degr = 0
            /\ adv < base => degr = base - adv

\* A run whose perturbed accuracy is strictly above the baseline.
C9_Witness ==
    /\ StressTestReturned
    /\ LastDetails.adversarial_accuracy > LastDetails.baseline_accuracy
    /\ LastDetails.accuracy_degradation = 0

\* C10: the level is high when accuracy_degradation >= 0.20, medium when
\* 0.10 <= accuracy_degradation < 0.20, and low otherwise.
C10_LevelByDegradation ==
    StressTestReturned =>
        LET degr == LastDetails.accuracy_degradation
            level == runs[1].outcome.risk.level
        IN  /\ (100 * degr >= 20 * AccuracyUnit) => level = "high"
            /\ (100 * degr >= 10 * AccuracyUnit /\ 100 * degr < 20 * AccuracyUnit)
                   => level = "medium"
            /\ (100 * degr < 10 * AccuracyUnit) => level = "low"

\* A run whose degradation is exactly 0.10, reported medium.
C10_Witness ==
    /\ StressTestReturned
    /\ 100 * LastDetails.accuracy_degradation = 10 * AccuracyUnit
    /\ runs[1].outcome.risk.level = "medium"

\* The ambient source is where the other code's draws left it, and the outcome
\* of the last stress test is fixed by its arguments and the state its
\* generator had at entry.
AmbientSourceUntouched ==
    /\ globalRng = AfterDraws(0, ambientDraws)
    /\ runs # <<>> =>
          /\ runs[1].outcome = run_adversarial_stress_test(params, orig_df, runs[1].entry)
          /\ ~runs[1].supplied => runs[1].entry = default_rng(42)

\* C13 (as amended): no stress test changes the ambient np.random source; the
\* only generator of the caller a stress test advances is the one passed in (a
\* call with rng=None advances none and draws from a generator it makes from
\* seed 42), so the outcome depends on the arguments and that generator alone,
\* whatever ran before or in between.
C13_NoAmbientRandomness ==
    /\ []AmbientSourceUntouched
    /\ [][(runs' # runs /\ ~runs'[1].supplied) => rng' = rng]_vars

\* C13 (as claimed): the same, and the generator of every stress test was
\* supplied by the caller, never created inside the call.
C13_RandomnessAlwaysSupplied ==
    /\ AmbientSourceUntouched
    /\ runs # <<>> => runs[1].supplied

\* A stress test with the caller's generator, which it advanced, after other
\* code drew from the ambient source.
C13_Witness ==
    /\ StressTestReturned
    /\ runs[1].supplied
    /\ rng # runs[1].entry
    /\ ambientDraws >= 1
    /\ globalRng # 0

-----------------------------------------------------------------------------
(* More properties of scan_for_data_poisoning (checked under ScanSpec)     *)

\* The scanner returned a RiskScore for the split df.
ScanReturned == pc = "returned" /\ result.kind = "risk"

\* The entries of details.issues that a given heuristic appended.
IssuesOf(kind) ==
    {i \in 1..Len(result.risk.details.issues) : result.risk.details.issues[i].issue = kind}

\* The first and third quartile of a column (times 4): the sorted values at
\* positions (n-1)/4 and 3(n-1)/4, interpolated linearly between neighbours.
Quartiles4(series) == <<Quantile4(series, 1), Quantile4(series, 3)>>

\* The rows of a column whose value lies strictly outside [Q1 - 3 IQR, Q3 + 3 IQR].
StrictlyOutside(series) ==
    LET q == Quartiles4(series)
        iqr == q[2] - q[1]
    IN  {i \in 1..Len(series) :
            4 * series[i] < q[1] - 3 * iqr \/ 4 * series[i] > q[2] + 3 * iqr}

\* A value of the column that sits exactly on one of the two bounds.
OnBound(series, i) ==
    LET q == Quartiles4(series)
        iqr == q[2] - q[1]
    IN  4 * series[i] = q[1] - 3 * iqr \/ 4 * series[i] = q[2] + 3 * iqr

OutlierTotal(d) ==
    SumSeq([c \in 1..Len(NumericColumns) |->
                Cardinality(StrictlyOutside(Column(d, NumericColumns[c])))])

\* C14: the outlier count is the sum over the numeric columns of the rows
\* strictly outside [Q1 - 3 IQR, Q3 + 3 IQR] of that column (a row offending in
\* two columns counts twice, a value on a bound does not count, in a column
\* with IQR = 0 every value other than the quartile value counts), and the
\* outlier issue is raised exactly when the sum is not zero.
C14_OutliersSummedPerColumn ==
    ScanReturned =>
        LET raised == IssuesOf("numeric rows outside 3*IQR boundaries")
        IN  /\ (raised # {}) <=> (OutlierTotal(df) # 0)
            /\ Cardinality(raised) <= 1
            /\ \A i \in raised : result.risk.details.issues[i].count = OutlierTotal(df)
            /\ \A c \in 1..Len(NumericColumns) :
                 LET series == Column(df, NumericColumns[c])
                     q == Quartiles4(series)
                 IN  /\ \A i \in 1..Len(series) :
                            OnBound(series, i) => i \notin StrictlyOutside(series)
                     /\ q[1] = q[2] =>
                            StrictlyOutside(series)
                                = {i \in 1..Len(series) : 4 * series[i] # q[1]}

\* One row is the only outlier of both columns, each of IQR 0: the count is 2.
C14_Witness ==
    /\ ScanReturned
    /\ \E i \in 1..Len(df) :
          /\ StrictlyOutside(Column(df, "x")) = {i}
          /\ StrictlyOutside(Column(df, "y")) = {i}
    /\ Quartiles4(Column(df, "x"))[1] = Quartiles4(Column(df, "x"))[2]
    /\ \E i \in IssuesOf("numeric rows outside 3*IQR boundaries") :
          result.risk.details.issues[i].count = 2

\* The frequency of a label in a split, as <<count, rows>>.
Frequency(d, l) == <<Cardinality({i \in 1..Len(d) : d[i].label = l}), Len(d)>>

\* C15: the label-imbalance issue is raised exactly when the highest label
\* frequency is strictly greater than 0.75, and details.class_balance is the
\* label-to-frequency mapping of the split whether or not an issue was raised.
C15_ImbalanceAboveThreeQuarters ==
    ScanReturned =>
        /\ (IssuesOf("Label imbalance detected") # {})
               <=> (\E l \in Labels : 4 * Frequency(df, l)[1] > 3 * Frequency(df, l)[2])
        /\ DOMAIN result.risk.details.class_balance = {df[i].label : i \in 1..Len(df)}
        /\ \A l \in DOMAIN result.risk.details.class_balance :
               result.risk.details.class_balance[l] = Frequency(df, l)

\* A split with labels at exactly 0.75/0.25: no imbalance issue, balance given.
C15_Witness ==
    /\ ScanReturned
    /\ Len(df) = 4
    /\ Frequency(df, "yes") = <<3, 4>>
    /\ IssuesOf("Label imbalance detected") = {}
    /\ result.risk.details.class_balance["yes"] = <<3, 4>>
    /\ result.risk.details.class_balance["no"] = <<1, 4>>

-----------------------------------------------------------------------------
(* More properties of run_adversarial_stress_test (under AdversarialSpec)  *)

\* The perturbed frame of the last run, from the caller's split and the state
\* the generator had at entry.
LastPerturbed == Perturbed(runs[1].entry, orig_df, params.epsilon, params.trigger_phrase)

\* The rows of the last run that received the trigger phrase.
ReceivedTrigger ==
    {i \in 1..Len(orig_df) : LastPerturbed[i].text = Append(orig_df[i].text, params.trigger_phrase)}

\* The triggered rows whose prediction on the perturbed row is not the true label.
TriggeredOffLabel ==
    {i \in ReceivedTrigger : Predict(params.model, LastPerturbed[i]) # orig_df[i].label}

\* C16: targeted_success_rate is the fraction of the rows that received the
\* trigger phrase whose prediction on the perturbed row differs from the true
\* label, 0.0 when no row was triggered, always within [0, 1], and
\* triggered_subset_size is the number of rows that received the phrase.
C16_TargetedSuccessOverTriggeredRows ==
    StressTestReturned =>
        LET rate == LastDetails.targeted_success_rate
        IN  /\ LastDetails.triggered_subset_size = Cardinality(ReceivedTrigger)
            /\ rate = IF ReceivedTrigger = {} THEN <<0, 1>>
                      ELSE <<Cardinality(TriggeredOffLabel), Cardinality(ReceivedTrigger)>>
            /\ rate[2] > 0
            /\ 0 <= rate[1]
            /\ rate[1] <= rate[2]

\* Two rows triggered, one of them predicted off its label: the rate is 1/2.
C16_Witness ==
    /\ StressTestReturned
    /\ Len(orig_df) = 2
    /\ LastDetails.triggered_subset_size = 2
    /\ LastDetails.targeted_success_rate = <<1, 2>>

\* The population standard deviation of a column, in thousandths, rounded down:
\* the root of the mean squared distance to the mean.
PopulationStd(series) ==
    LET n == Len(series)
        total == SumSeq(series)
        squares == SumSeq([i \in 1..n |-> (n * series[i] - total) * (n * series[i] - total)])
    IN  CHOOSE r \in 0..(4 * Milli) :
            /\ r * r * n * n * n <= squares
            /\ (r + 1) * (r + 1) * n * n * n > squares

\* max(deviation * epsilon, 1e-3), in thousandths.
ClampedScale(deviation, epsilon) ==
    IF (deviation * epsilon) \div Milli >= 1 THEN (deviation * epsilon) \div Milli ELSE 1

\* C17 as stated: the noise scale of every numeric column is
\* max(std * epsilon, 1e-3) for the population standard deviation std of the
\* column on the original split, hence 1e-3 for a constant column.
C17_ScaleFromPlainDeviation ==
    (runs # <<>> /\ orig_df # <<>>) =>
        \A c \in 1..Len(AdvNumericColumns) :
            runs[1].scale[c]
                = ClampedScale(PopulationStd(Column(orig_df, AdvNumericColumns[c])),
                               params.epsilon)

\* C17 (amended): the noise scale of every numeric column is
\* max(s * epsilon, 1e-3), where s is the population standard deviation of the
\* column on the original split with a deviation of exactly 0 replaced by 1;
\* for a column of deviation 0 the scale is therefore max(epsilon, 1e-3).
C17_ScaleFromReplacedDeviation ==
    (runs # <<>> /\ orig_df # <<>>) =>
        \A c \in 1..Len(AdvNumericColumns) :
            LET std == PopulationStd(Column(orig_df, AdvNumericColumns[c]))
            IN  /\ runs[1].scale[c]
                       = ClampedScale(IF std = 0 THEN 1 * Milli ELSE std, params.epsilon)
                /\ std = 0 => runs[1].scale[c] = ClampedScale(1 * Milli, params.epsilon)

\* A constant column of two rows under epsilon = 1: the scale is 1, not 1e-3.
C17_Witness ==
    /\ StressTestReturned
    /\ Len(orig_df) = 2
    /\ orig_df[1].x = orig_df[2].x
    /\ params.epsilon = 1 * Milli
    /\ runs[1].scale = <<1 * Milli>>

-----------------------------------------------------------------------------
(* More properties of assemble_security_report (checked under Spec)        *)

\* Some RiskScore of the call has a level outside low, medium and high.
UnknownLevelGiven ==
    \E i \in 1..Len(risks) : risks[i].level \notin {"low", "medium", "high"}

\* C18: when a RiskScore of the call has a level outside {low, medium, high}
\* the call fails before anything is written to the report path (no file is
\* created, an existing file is left as it was); when every level is valid and
\* the call returns, the document at the report path is the returned report.
C18_UnknownLevelFailsBeforeWrite ==
    /\ (pc # "idle" /\ UnknownLevelGiven) =>
          /\ pc = "raised"
          /\ result.kind = "error"
          /\ file = priorFile
    /\ pc = "returned" =>
          /\ ~UnknownLevelGiven
          /\ file.exists
          /\ file.content = Dumps(result.report)
          /\ result.report.risks = [i \in 1..Len(risks) |-> to_dict(risks[i])]

\* A call given an unknown level raised, with the earlier report still in place.
C18_Witness ==
    /\ pc = "raised"
    /\ UnknownLevelGiven
    /\ result = Raised("KeyError")
    /\ priorFile.exists
    /\ file = priorFile
    /\ file.content = Dumps(PriorReport)

====
